---- MODULE Spec2Model ----
(***************************************************************************)
(* The documentation sidebar of woodwork-website                           *)
(* (client/src/components/DocsSidebar.tsx): the expansion state            *)
(* openFolders, its initialisation from the route (useEffect), the         *)
(* toggleFolder transition and the recursive renderSidebar.                *)
(*                                                                         *)
(* A JavaScript string is modelled as the sequence of its characters, so   *)
(* that split('/'), replace and startsWith are computed, not assumed:      *)
(* "a/b" is <<"a", "/", "b">> and '' is <<>>.  A Record<string, boolean>   *)
(* is a function whose domain is the set of its keys.                      *)
(*                                                                         *)
(* Spec is the sidebar over two sample trees: mount, navigation, the       *)
(* effect and toggleFolder.  SpecBuild is a page load: the tree builder    *)
(* turns a document catalog into the tree, the sidebar mounts on a route   *)
(* of the tree and renders it.  The builder is no part of the component;   *)
(* it is modelled from the specification of the tree (sections 4.1, 7).    *)
(* SpecScan is the catalog scan getAllDocs (client/src/lib/markdown.js)    *)
(* over the files of a disk.  SpecBatch is the sidebar with its            *)
(* setOpenFolders calls queued until the next render.  SpecTracked is the  *)
(* sidebar with a history of its toggles.                                  *)
(***************************************************************************)
EXTENDS Integers, Sequences, FiniteSets, TLC

VARIABLES
    groupedDocs,    \* the groupedDocs prop: the name of the document tree
    pathname,       \* what usePathname() returns
    openFolders,    \* the openFolders state
    effectPending,  \* the [pathname] effect has not yet run for this pathname
    lastEvent,      \* history: the event that led to this state
    catalog,        \* the DocumentCatalog handed to the tree builder
    built,          \* the builder's result: the tree and the error side list
    listRows,       \* the rows renderSidebar returned for the built tree
    pc,             \* where the build-and-render pipeline stands
    docsDir,        \* what the disk holds under docsDirectory
    sep,            \* path.sep of the platform the scan runs on
    updateQueue,    \* the setOpenFolders calls waiting for the next render
    sequential,     \* history: the events applied one at a time
    collapsed,      \* history: a folder that was closed, and what it showed
    previous        \* history: the toggle that ran last, and the state before

sidebarVars == <<groupedDocs, pathname, openFolders, effectPending, lastEvent>>

buildVars == <<catalog, built, listRows, pc>>

scanVars == <<docsDir, sep>>

batchVars == <<updateQueue, sequential>>

trackVars == <<collapsed, previous>>

vars == <<groupedDocs, pathname, openFolders, effectPending, lastEvent,
          catalog, built, listRows, pc, docsDir, sep, updateQueue,
          sequential, collapsed, previous>>

----------------------------------------------------------------------------
(* Bounds of the model *)

\* Largest number of segments of a generated well-formed slug or path.
MaxDepth == 3

\* Largest length of the arbitrary character strings handed to toggleFolder.
MaxRawLen == 1

\* Characters of the arbitrary strings, and the segment names of the
\* generated well-formed slugs (one character each).
Chars == {"a", "/"}

SegNames == {<<"a">>}

\* Largest number of documents of a catalog handed to the tree builder.
MaxCatalog == 3

\* Largest number of files on the disk the catalog scan reads.
MaxFiles == 3

\* Largest number of toggleFolder calls waiting for one render.
MaxBatch == 2

----------------------------------------------------------------------------
(* JavaScript string and array primitives, on character sequences *)

\* s.startsWith(pre)
StartsWith(s, pre) ==
    /\ Len(pre) <= Len(s)
    /\ SubSeq(s, 1, Len(pre)) = pre

\* s.indexOf(pat), 1-based; 0 when pat does not occur
IndexOf(s, pat) ==
    LET hits == {i \in 1..(Len(s) - Len(pat) + 1) :
                    SubSeq(s, i, i + Len(pat) - 1) = pat}
    IN  IF hits = {} THEN 0 ELSE CHOOSE i \in hits : \A j \in hits : i <= j

\* s.replace(pat, '') with a string pattern: the first occurrence only
ReplaceFirst(s, pat) ==
    LET i == IndexOf(s, pat)
    IN  IF i = 0 THEN s
        ELSE SubSeq(s, 1, i - 1) \o SubSeq(s, i + Len(pat), Len(s))

\* s.replace(/^pat/, ''): the occurrence at the start only
ReplaceAnchored(s, pat) ==
    IF StartsWith(s, pat) THEN SubSeq(s, Len(pat) + 1, Len(s)) ELSE s

\* s.split('/'): never empty, ''.split('/') is ['']
RECURSIVE SplitFrom(_, _)
SplitFrom(s, cur) ==
    IF s = <<>> THEN <<cur>>
    ELSE IF Head(s) = "/" THEN <<cur>> \o SplitFrom(Tail(s), <<>>)
    ELSE SplitFrom(Tail(s), Append(cur, Head(s)))

Split(s) == SplitFrom(s, <<>>)

\* arr.slice(0, -1)
SliceButLast(arr) == IF Len(arr) = 0 THEN <<>> ELSE SubSeq(arr, 1, Len(arr) - 1)

\* The empty Record<string, boolean>, rec[key] = value, and the truthiness
\* of rec[key] (undefined for an absent key).
EmptyRecord == [k \in {} |-> TRUE]

Assign(rec, key, value) ==
    [k \in DOMAIN rec \cup {key} |-> IF k = key THEN value ELSE rec[k]]

Truthy(rec, key) == key \in DOMAIN rec /\ rec[key]

----------------------------------------------------------------------------
(* The document tree handed to the sidebar (interfaces Doc, DocTreeNode) *)

\* interface Doc { slug; title; index }
Doc(slug, title, index) == [slug |-> slug, title |-> title, index |-> index]

NoDoc == Doc(<<>>, "", 0)

\* A DocTreeNode value: either { __doc: Doc } or a nested DocTreeNode, whose
\* entries are kept in insertion order (Object.entries).
Leaf(doc) == [hasDoc |-> TRUE, doc |-> doc, entries |-> <<>>]

Folder(entries) == [hasDoc |-> FALSE, doc |-> NoDoc, entries |-> entries]

Entry(key, value) == [key |-> key, value |-> value]

\* '__doc' in v
HasDoc(v) == v.hasDoc

\* `${basePath}/${key}`, or key at the root
ChildPath(basePath, key) ==
    IF basePath # <<>> THEN basePath \o <<"/">> \o key ELSE key

\* segs.join('/')
RECURSIVE Join(_)
Join(segs) ==
    IF Len(segs) = 0 THEN <<>>
    ELSE IF Len(segs) = 1 THEN segs[1]
    ELSE segs[1] \o <<"/">> \o Join(Tail(segs))

\* The paths of the folders of a tree and the slugs of its leaves.
RECURSIVE FolderPaths(_, _)
FolderPaths(tree, basePath) ==
    UNION { IF HasDoc(tree.entries[i].value) THEN {}
            ELSE LET p == ChildPath(basePath, tree.entries[i].key)
                 IN  {p} \cup FolderPaths(tree.entries[i].value, p)
            : i \in 1..Len(tree.entries) }

RECURSIVE LeafDocs(_)
LeafDocs(tree) ==
    UNION { IF HasDoc(tree.entries[i].value) THEN {tree.entries[i].value.doc}
            ELSE LeafDocs(tree.entries[i].value)
            : i \in 1..Len(tree.entries) }

LeafSlugs(tree) == {d.slug : d \in LeafDocs(tree)}

\* Segment names used by the sample trees.
sa == <<"a">>
sb == <<"b">>
sab == <<"a", "b">>
intro == <<"i", "n", "t", "r", "o">>
guide == <<"g", "u", "i", "d", "e">>
setup == <<"s", "e", "t", "u", "p">>
advanced == <<"a", "d", "v">>
tuning == <<"t", "u", "n", "e">>
reference == <<"r", "e", "f", "e", "r", "e", "n", "c", "e">>
api == <<"a", "p", "i">>

\* A tree over the one-character segment names: leaves ab, a/a, a/b/a,
\* a/b/b/a, b/b/a, b/a; folders a, a/b, a/b/b, b, b/b.
TreeAB ==
    Folder(<<
        Entry(sab, Leaf(Doc(sab, "AB", 0))),
        Entry(sa, Folder(<<
            Entry(sa, Leaf(Doc(Join(<<sa, sa>>), "AA", 1))),
            Entry(sb, Folder(<<
                Entry(sa, Leaf(Doc(Join(<<sa, sb, sa>>), "ABA", 2))),
                Entry(sb, Folder(<<
                    Entry(sa, Leaf(Doc(Join(<<sa, sb, sb, sa>>), "ABBA", 1))) >>)) >>)) >>)),
        Entry(sb, Folder(<<
            Entry(sb, Folder(<<
                Entry(sa, Leaf(Doc(Join(<<sb, sb, sa>>), "BBA", 0))) >>)),
            Entry(sa, Leaf(Doc(Join(<<sb, sa>>), "BA", 0))) >>)) >>)

\* The catalog [intro, guide/setup, guide/advanced/tuning] with a configured
\* folder reference beside it.
TreeGuide ==
    Folder(<<
        Entry(intro, Leaf(Doc(intro, "Intro", 0))),
        Entry(guide, Folder(<<
            Entry(setup, Leaf(Doc(Join(<<guide, setup>>), "Setup", 0))),
            Entry(advanced, Folder(<<
                Entry(tuning,
                      Leaf(Doc(Join(<<guide, advanced, tuning>>), "Tuning", 1))) >>)) >>)),
        Entry(reference, Folder(<<
            Entry(api, Leaf(Doc(Join(<<reference, api>>), "API", 0))) >>)) >>)

\* groupedDocs holds the name of the tree object it refers to.
Trees == {"TreeAB", "TreeGuide"}

TreeOf(name) == IF name = "TreeAB" THEN TreeAB ELSE TreeGuide

----------------------------------------------------------------------------
(* Routes and toggle arguments the environment supplies *)

DocsPrefix == <<"/", "d", "o", "c", "s", "/">>

\* Slugs of 1..MaxDepth one-character segments.
WellFormedSlugs == {Join(segs) : segs \in UNION {[1..k -> SegNames] : k \in 1..MaxDepth}}

\* Every character string of length 0..MaxRawLen.
RawStrings == UNION {[1..k -> Chars] : k \in 0..MaxRawLen}

\* Pathnames outside the documents: '/docs' and '/'.
NonDocRoutes == {<<"/", "d", "o", "c", "s">>, <<"/">>}

\* The pathnames the router can deliver for a tree: a document route for
\* every generated slug and every leaf of the tree, and the other routes.
RoutesOf ==
    [tree \in Trees |->
        {DocsPrefix \o s : s \in WellFormedSlugs \cup LeafSlugs(TreeOf(tree))}
            \cup NonDocRoutes]

Routes(tree) == RoutesOf[tree]

\* The arguments of toggleFolder: the folders of the tree (the rows that can
\* be clicked), every generated path and every arbitrary string.
TogglePathsOf ==
    [tree \in Trees |->
        RawStrings \cup WellFormedSlugs \cup FolderPaths(TreeOf(tree), <<>>)]

TogglePaths(tree) == TogglePathsOf[tree]

----------------------------------------------------------------------------
(* useEffect(..., [pathname]): expand the folders leading to the route *)

\* slugPath.slice(0, -1).reduce((acc, part) => ..., '')
RECURSIVE Reduce(_, _, _)
Reduce(parts, acc, pathsToOpen) ==
    IF parts = <<>> THEN pathsToOpen
    ELSE LET part == Head(parts)
             newPath == IF acc # <<>> THEN acc \o <<"/">> \o part ELSE part
         IN  Reduce(Tail(parts), newPath, Assign(pathsToOpen, newPath, TRUE))

\* Variant: the final segment is not sliced off.
PathsToOpenWholeSlug(pn) ==
    LET slugPath == Split(ReplaceFirst(pn, DocsPrefix))
    IN  Reduce(slugPath, <<>>, EmptyRecord)

PathsToOpen(pn) ==
    LET slugPath == Split(ReplaceFirst(pn, DocsPrefix))
    IN  Reduce(SliceButLast(slugPath), <<>>, EmptyRecord)

\* Variant: the new paths are merged into the previous state.
EffectResultMerging(prev, pn) ==
    IF ~StartsWith(pn, DocsPrefix) THEN prev
    ELSE [k \in DOMAIN prev \cup DOMAIN PathsToOpen(pn) |-> TRUE]

\* Variant: no early return, the paths are computed for every pathname.
EffectResultNoReturn(prev, pn) == PathsToOpen(pn)

\* The state the effect leaves: unchanged on the early return.
EffectResult(prev, pn) ==
    IF ~StartsWith(pn, DocsPrefix) THEN prev ELSE PathsToOpen(pn)

----------------------------------------------------------------------------
(* toggleFolder(path): the updater handed to setOpenFolders *)

Level(path) == Len(Split(path))

\* Variant: a plain toggle that leaves the other paths of the level open.
ToggleUpdaterKeepSiblings(prev, path) ==
    IF ~Truthy(prev, path) THEN Assign(prev, path, TRUE)
    ELSE [key \in DOMAIN prev \ {path} |-> prev[key]]

\* Variant: closes the level of the path and every deeper level.
ToggleUpdaterCloseDeeper(prev, path) ==
    LET level == Level(path)
        newState == [key \in {k \in DOMAIN prev : Level(k) < level} |-> prev[key]]
    IN  IF ~Truthy(prev, path) THEN Assign(newState, path, TRUE) ELSE newState

\* Variant: the clicked path is always set open.
ToggleUpdaterAlwaysOpen(prev, path) ==
    LET level == Level(path)
        newState == [key \in {k \in DOMAIN prev : Level(k) # level} |-> prev[key]]
    IN  Assign(newState, path, TRUE)

\* Variant: the level is emptied only when the clicked path gets closed.
ToggleUpdaterCloseOnCollapse(prev, path) ==
    LET level == Level(path)
        newState == [key \in {k \in DOMAIN prev : Level(k) # level} |-> prev[key]]
    IN  IF ~Truthy(prev, path) THEN Assign(prev, path, TRUE) ELSE newState

\* Variant: opening or closing a path closes every other path.
ToggleUpdaterOnlyPath(prev, path) ==
    IF ~Truthy(prev, path) THEN Assign(EmptyRecord, path, TRUE)
    ELSE EmptyRecord

ToggleUpdater(prev, path) ==
    LET level == Level(path)
        newState == [key \in {k \in DOMAIN prev : Level(k) # level} |-> prev[key]]
    IN  IF ~Truthy(prev, path) THEN Assign(newState, path, TRUE) ELSE newState

----------------------------------------------------------------------------
(* folderConfig and the ordering of one level *)

tutorials == <<"t", "u", "t", "o", "r", "i", "a", "l", "s">>
explanation == <<"e", "x", "p", "l", "a", "n", "a", "t", "i", "o", "n">>
howTo == <<"h", "o", "w", "-", "t", "o">>

ConfiguredFolders == {tutorials, explanation, howTo, reference}

folderConfig(name) ==
    CASE name = tutorials -> [displayName |-> <<"T", "u", "t", "o", "r", "i", "a", "l", "s">>, order |-> 1]
      [] name = explanation -> [displayName |-> <<"E", "x", "p", "l", "a", "n", "a", "t", "i", "o", "n">>, order |-> 3]
      [] name = howTo -> [displayName |-> <<"H", "o", "w", "-", "t", "o", " ", "G", "u", "i", "d", "e", "s">>, order |-> 2]
      [] name = reference ->
            [displayName |-> <<"T", "e", "c", "h", "n", "i", "c", "a", "l", " ", "R", "e", "f", "e", "r", "e", "n", "c", "e">>, order |-> 4]

\* folderConfig[a]?.order ?? 999
DefaultOrder == 999

FolderOrder(name) ==
    IF name \in ConfiguredFolders THEN folderConfig(name).order ELSE DefaultOrder

\* Variant: without the g flag only the first separator is replaced.
HumanizeFirstOnly(key) ==
    [i \in 1..Len(key) |->
        IF key[i] \in {"-", "_"} /\ \A j \in 1..(i - 1) : key[j] \notin {"-", "_"}
        THEN " " ELSE key[i]]

\* key.replace(/[-_]/g, ' ')
Humanize(key) ==
    [i \in 1..Len(key) |-> IF key[i] \in {"-", "_"} THEN " " ELSE key[i]]

\* folderConfig[key]?.displayName ?? key.replace(/[-_]/g, ' ')
DisplayName(key) ==
    IF key \in ConfiguredFolders THEN folderConfig(key).displayName ELSE Humanize(key)

\* a.localeCompare(b) restricted to the characters of the model: separators
\* sort before digits, digits before letters, a proper prefix before its
\* extensions.  Negative, zero or positive.
Collation == <<" ", "_", "-", "/", "0", "1", "2", "3", "4", "5", "6", "7", "8", "9", "a", "b", "c", "d", "e", "f", "g", "h", "i", "j", "k", "l", "m", "n", "o", "p", "q", "r", "s", "t", "u", "v", "w", "x", "y", "z">>

CharRank(c) ==
    IF \E i \in 1..Len(Collation) : Collation[i] = c
    THEN CHOOSE i \in 1..Len(Collation) : Collation[i] = c
    ELSE Len(Collation) + 1

RECURSIVE LocaleCompare(_, _)
LocaleCompare(a, b) ==
    IF a = <<>> /\ b = <<>> THEN 0
    ELSE IF a = <<>> THEN -1
    ELSE IF b = <<>> THEN 1
    ELSE IF Head(a) = Head(b) THEN LocaleCompare(Tail(a), Tail(b))
    ELSE IF CharRank(Head(a)) # CharRank(Head(b))
         THEN CharRank(Head(a)) - CharRank(Head(b))
    ELSE LocaleCompare(Tail(a), Tail(b))

\* The comparator of docs.sort: docA.index - docB.index
DocCompare(x, y) == x.value.doc.index - y.value.doc.index

\* Variant: folders of equal order are not compared by name.
FolderCompareOrderOnly(x, y) == FolderOrder(x.key) - FolderOrder(y.key)

\* The comparator of folders.sort
FolderCompare(x, y) ==
    LET orderA == FolderOrder(x.key)
        orderB == FolderOrder(y.key)
    IN  IF orderA = orderB THEN LocaleCompare(x.key, y.key) ELSE orderA - orderB

\* Array.prototype.sort is stable: an element moves behind exactly the
\* elements that compare smaller and the equal ones that came before it.
\* compare[j, i] is the comparator's result for arr[j] and arr[i].
SortBy(arr, compare) ==
    LET n == Len(arr)
        Before(j, i) == \/ compare[j, i] < 0
                        \/ (compare[j, i] = 0 /\ j < i)
        Rank(i) == Cardinality({j \in 1..n : Before(j, i)}) + 1
    IN  [k \in 1..n |-> arr[CHOOSE i \in 1..n : Rank(i) = k]]

IsFolderEntry(e) == ~HasDoc(e.value)

IsDocEntry(e) == HasDoc(e.value)

\* A canonical array index: decimal digits without a leading zero.
Digits == {"0", "1", "2", "3", "4", "5", "6", "7", "8", "9"}

IsArrayIndex(key) ==
    /\ Len(key) >= 1
    /\ \A i \in 1..Len(key) : key[i] \in Digits
    /\ (Len(key) > 1 => key[1] # "0")

\* Numeric comparison of two array indices: negative, zero or positive.
IndexCompare(a, b) ==
    IF Len(a) # Len(b) THEN Len(a) - Len(b) ELSE LocaleCompare(a, b)

HasIndexKey(e) == IsArrayIndex(e.key)

HasNameKey(e) == ~IsArrayIndex(e.key)

\* Object.entries(tree): the keys that are array indices first, in ascending
\* numeric order, then the other keys in insertion order.
ObjectEntries(tree) ==
    LET indexed == SelectSeq(tree.entries, HasIndexKey)
    IN  SortBy(indexed, [j, i \in 1..Len(indexed) |->
                            IndexCompare(indexed[j].key, indexed[i].key)])
        \o SelectSeq(tree.entries, HasNameKey)

\* The two sorted arrays renderSidebar maps over.
SortedDocs(tree) ==
    LET docs == SelectSeq(ObjectEntries(tree), IsDocEntry)
    IN  SortBy(docs, [j, i \in 1..Len(docs) |-> DocCompare(docs[j], docs[i])])

\* Variant: the folders are left in the order Object.entries gives.
SortedFoldersUnsorted(tree) == SelectSeq(ObjectEntries(tree), IsFolderEntry)

SortedFolders(tree) ==
    LET folders == SelectSeq(ObjectEntries(tree), IsFolderEntry)
    IN  SortBy(folders,
               [j, i \in 1..Len(folders) |-> FolderCompare(folders[j], folders[i])])

----------------------------------------------------------------------------
(* renderSidebar(tree, basePath): the rows of the list, in document order *)

\* One <li>: a leaf link or a folder header.  list is the basePath of the
\* <ul> the row belongs to.
LeafRow(doc, activeSlug, basePath) ==
    [type |-> "leaf", list |-> basePath, slug |-> doc.slug, title |-> doc.title,
     isActive |-> (doc.slug = activeSlug),
     path |-> <<>>, displayName |-> <<>>, isOpen |-> FALSE]

FolderRow(key, currentPath, isOpen, basePath) ==
    [type |-> "folder", list |-> basePath, slug |-> <<>>, title |-> "",
     isActive |-> FALSE,
     path |-> currentPath, displayName |-> DisplayName(key), isOpen |-> isOpen]

\* Variant: the '/docs/' prefix is not stripped.
ActiveSlugUnstripped(pn) == pn

\* pathname?.replace(/^\/docs\//, '')
ActiveSlug(pn) == ReplaceAnchored(pn, DocsPrefix)

\* !!openFolders[currentPath]
IsOpen(open, currentPath) == Truthy(open, currentPath)

RECURSIVE RenderSidebar(_, _, _, _)
RECURSIVE RenderFolders(_, _, _, _)

\* Variant: the nested list is rendered whether or not the folder is open.
RenderFoldersAlways(folders, basePath, pn, open) ==
    IF folders = <<>> THEN <<>>
    ELSE LET key == Head(folders).key
             currentPath == ChildPath(basePath, key)
         IN  <<FolderRow(key, currentPath, IsOpen(open, currentPath), basePath)>>
             \o RenderSidebar(Head(folders).value, currentPath, pn, open)
             \o RenderFolders(Tail(folders), basePath, pn, open)

\* folders.map(...): each header row, followed by the nested list when open
RenderFolders(folders, basePath, pn, open) ==
    IF folders = <<>> THEN <<>>
    ELSE LET key == Head(folders).key
             value == Head(folders).value
             currentPath == ChildPath(basePath, key)
             isOpen == IsOpen(open, currentPath)
         IN  <<FolderRow(key, currentPath, isOpen, basePath)>>
             \o (IF isOpen THEN RenderSidebar(value, currentPath, pn, open) ELSE <<>>)
             \o RenderFolders(Tail(folders), basePath, pn, open)

\* Variant: the folder rows are emitted before the leaf rows.
RenderSidebarFoldersFirst(tree, basePath, pn, open) ==
    LET activeSlug == ActiveSlug(pn)
        docs == SortedDocs(tree)
    IN  RenderFolders(SortedFolders(tree), basePath, pn, open)
        \o [i \in 1..Len(docs) |-> LeafRow(docs[i].value.doc, activeSlug, basePath)]

RenderSidebar(tree, basePath, pn, open) ==
    LET activeSlug == ActiveSlug(pn)
        docs == SortedDocs(tree)
    IN  [i \in 1..Len(docs) |-> LeafRow(docs[i].value.doc, activeSlug, basePath)]
        \o RenderFolders(SortedFolders(tree), basePath, pn, open)

\* What the component shows in the current state.
Rendered == RenderSidebar(TreeOf(groupedDocs), <<>>, pathname, openFolders)

----------------------------------------------------------------------------
(* The tree builder: groupedDocs from the document catalog *)

\* An entry of the error side list.
BuildError(kind, path) == [kind |-> kind, path |-> path]

\* The builder's result, and the value held before the builder has run.
Result(tree, errors) == [tree |-> tree, errors |-> errors]

NoResult == Result(Folder(<<>>), <<>>)

\* A slug is malformed when it is empty or one of its segments is empty
\* (a leading, trailing or doubled '/').
MalformedSlug(slug) ==
    LET segs == Split(slug)
    IN  \/ slug = <<>>
        \/ \E i \in 1..Len(segs) : segs[i] = <<>>

\* The position of the child named key among the entries, 0 when absent.
EntryIndex(entries, key) ==
    IF \E i \in 1..Len(entries) : entries[i].key = key
    THEN CHOOSE i \in 1..Len(entries) : entries[i].key = key
    ELSE 0

\* Variant: the child is always added as a new entry.
SetChildAppend(node, key, value) ==
    Folder(Append(node.entries, Entry(key, value)))

\* node[key] = value: a new key is added last, an existing key keeps its
\* place.
SetChild(node, key, value) ==
    LET i == EntryIndex(node.entries, key)
    IN  IF i = 0 THEN Folder(Append(node.entries, Entry(key, value)))
        ELSE Folder([node.entries EXCEPT ![i] = Entry(key, value)])

\* Variant: a leaf that meets a folder of its name replaces the folder.
RECURSIVE PlaceLeafWins(_, _, _, _)
PlaceLeafWins(node, segs, basePath, doc) ==
    LET key == Head(segs)
        path == ChildPath(basePath, key)
        i == EntryIndex(node.entries, key)
    IN  IF Len(segs) = 1
        THEN IF i # 0 /\ ~HasDoc(node.entries[i].value)
             THEN Result(SetChild(node, key, Leaf(doc)),
                         <<BuildError("NodeKindConflict", path)>>)
             ELSE Result(SetChild(node, key, Leaf(doc)), <<>>)
        ELSE IF i # 0 /\ HasDoc(node.entries[i].value)
             THEN Result(node, <<BuildError("NodeKindConflict", path)>>)
             ELSE LET child == IF i = 0 THEN Folder(<<>>) ELSE node.entries[i].value
                      below == PlaceLeafWins(child, Tail(segs), path, doc)
                  IN  Result(SetChild(node, key, below.tree), below.errors)

\* Variant: the leaf is created where the walk stops, one folder short.
RECURSIVE PlaceShallow(_, _, _, _)
PlaceShallow(node, segs, basePath, doc) ==
    LET key == Head(segs)
        path == ChildPath(basePath, key)
        i == EntryIndex(node.entries, key)
    IN  IF Len(segs) <= 2
        THEN IF i # 0 /\ ~HasDoc(node.entries[i].value)
             THEN Result(node, <<BuildError("NodeKindConflict", path)>>)
             ELSE Result(SetChild(node, key, Leaf(doc)), <<>>)
        ELSE LET child == IF i = 0 \/ HasDoc(node.entries[i].value)
                          THEN Folder(<<>>) ELSE node.entries[i].value
                 below == PlaceShallow(child, Tail(segs), path, doc)
             IN  Result(SetChild(node, key, below.tree), below.errors)

\* Walk the segments s1..s(n-1), creating the folders that are missing, and
\* create the leaf under sn.  Where a leaf and a folder meet at one name the
\* folder wins: the leaf is dropped and the conflict is reported.
RECURSIVE Place(_, _, _, _)
Place(node, segs, basePath, doc) ==
    LET key == Head(segs)
        path == ChildPath(basePath, key)
        i == EntryIndex(node.entries, key)
    IN  IF Len(segs) = 1
        THEN IF i # 0 /\ ~HasDoc(node.entries[i].value)
             THEN Result(node, <<BuildError("NodeKindConflict", path)>>)
             ELSE Result(SetChild(node, key, Leaf(doc)), <<>>)
        ELSE LET conflict == i # 0 /\ HasDoc(node.entries[i].value)
                 child == IF i = 0 \/ conflict
                          THEN Folder(<<>>) ELSE node.entries[i].value
                 below == Place(child, Tail(segs), path, doc)
             IN  Result(SetChild(node, key, below.tree),
                        (IF conflict
                         THEN <<BuildError("NodeKindConflict", path)>>
                         ELSE <<>>) \o below.errors)

\* Variant: a malformed slug is placed like any other.
InsertDocUnchecked(res, doc) ==
    LET placed == Place(res.tree, Split(doc.slug), <<>>, doc)
    IN  Result(placed.tree, res.errors \o placed.errors)

\* Variant: a malformed slug is left out without a report.
InsertDocSilent(res, doc) ==
    IF MalformedSlug(doc.slug) THEN res
    ELSE LET placed == Place(res.tree, Split(doc.slug), <<>>, doc)
         IN  Result(placed.tree, res.errors \o placed.errors)

\* One catalog entry: rejected and reported when its slug is malformed,
\* placed into the tree otherwise.
InsertDoc(res, doc) ==
    IF MalformedSlug(doc.slug)
    THEN Result(res.tree, Append(res.errors, BuildError("MalformedSlug", doc.slug)))
    ELSE LET placed == Place(res.tree, Split(doc.slug), <<>>, doc)
         IN  Result(placed.tree, res.errors \o placed.errors)

\* The whole catalog, entry by entry in catalog order.
RECURSIVE BuildFrom(_, _)
BuildFrom(res, docs) ==
    IF docs = <<>> THEN res
    ELSE BuildFrom(InsertDoc(res, Head(docs)), Tail(docs))

BuildTree(docs) == BuildFrom(NoResult, docs)

\* The documents the builder is exercised with: the catalog of the
\* construction example (intro, guide/setup, guide/adv/tune), a document
\* guide that meets the folder guide, folders with and without an entry in
\* folderConfig, leaves whose names are array indices, and the malformed
\* slugs '', '/intro', 'setup/' and 'guide//api'.
myDocs == <<"m", "y", "-", "d", "o", "c", "_", "s">>

DocUniverse ==
    { Doc(intro, "Intro", 0),
      Doc(guide, "A guide", 0),
      Doc(Join(<<guide, setup>>), "Setup", 0),
      Doc(Join(<<guide, advanced, tuning>>), "Tuning", 1),
      Doc(Join(<<reference, api>>), "API", 0),
      Doc(Join(<<howTo, setup>>), "How to set up", 0),
      Doc(Join(<<myDocs, api>>), "Mine", 0),
      Doc(<<"2">>, "Two", 1),
      Doc(<<"1">>, "One", 1),
      Doc(<<>>, "Empty", 0),
      Doc(<<"/">> \o intro, "Leading", 0),
      Doc(setup \o <<"/">>, "Trailing", 0),
      Doc(guide \o <<"/", "/">> \o api, "Doubled", 0) }

\* The catalogs: at most MaxCatalog documents, no slug twice.
Catalogs ==
    UNION { {c \in [1..k -> DocUniverse] :
                \A i, j \in 1..k : i # j => c[i] # c[j]} : k \in 0..MaxCatalog }

----------------------------------------------------------------------------
(* The catalog scan: getAllDocs over the files under docsDirectory
   (client/src/lib/markdown.js) *)

\* What the disk holds: a directory with its entries in the order
\* readdirSync lists them, or a file with the data of its front matter.
\* A front matter field that is absent is undefined in data.
Data(hasTitle, title, hasIndex, index) ==
    [hasTitle |-> hasTitle, title |-> title, hasIndex |-> hasIndex,
     index |-> index]

NoData == Data(FALSE, "", FALSE, 0)

File(name, data) ==
    [name |-> name, isDirectory |-> FALSE, list |-> <<>>, data |-> data]

Dir(name, list) ==
    [name |-> name, isDirectory |-> TRUE, list |-> list, data |-> NoData]

\* file.endsWith('.md')
mdExt == <<".", "m", "d">>

EndsWith(s, suf) ==
    /\ Len(s) >= Len(suf)
    /\ SubSeq(s, Len(s) - Len(suf) + 1, Len(s)) = suf

\* s.replace(/\.md$/, '')
ReplaceMdAtEnd(s) ==
    IF EndsWith(s, mdExt) THEN SubSeq(s, 1, Len(s) - Len(mdExt)) ELSE s

\* s.replace(/\\/g, '/')
ReplaceBackslashes(s) ==
    [i \in 1..Len(s) |-> IF s[i] = "\\" THEN "/" ELSE s[i]]

\* path.join(dir, file), for a name readdirSync returned
PathJoin(dir, file) == dir \o <<sep>> \o file

\* path.relative(from, to), for a path below from
PathRelative(from, to) ==
    IF StartsWith(to, from \o <<sep>>)
    THEN SubSeq(to, Len(from) + 2, Len(to))
    ELSE to

\* path.join(process.cwd(), 'src', 'docs')
docsDirectory ==
    IF sep = "/"
    THEN <<"/", "s", "r", "c", "/", "d", "o", "c", "s">>
    ELSE <<"C", ":", "\\", "s", "r", "c", "\\", "d", "o", "c", "s">>

\* relativePath.replace(/\.md$/, '').replace(/\\/g, '/')
SlugOf(baseDir, filePath) ==
    ReplaceBackslashes(ReplaceMdAtEnd(PathRelative(baseDir, filePath)))

\* data.title || 'Untitled': undefined and '' are falsy
TitleOrDefault(data) ==
    IF data.hasTitle /\ data.title # "" THEN data.title ELSE "Untitled"

\* data.index || 0: undefined and 0 are falsy
IndexOrDefault(data) ==
    IF data.hasIndex /\ data.index # 0 THEN data.index ELSE 0

\* Variant: the fields of the front matter are copied as they are, a field
\* that is undefined being left out.
CatalogRecordRaw(slug, data) ==
    IF data.hasTitle /\ data.hasIndex THEN Doc(slug, data.title, data.index)
    ELSE IF data.hasTitle THEN [slug |-> slug, title |-> data.title]
    ELSE IF data.hasIndex THEN [slug |-> slug, index |-> data.index]
    ELSE [slug |-> slug]

\* { slug, title: data.title || 'Untitled', index: data.index || 0 }
CatalogRecord(slug, data) ==
    Doc(slug, TitleOrDefault(data), IndexOrDefault(data))

\* getAllMarkdownFiles(dir, baseDir), list being what readdirSync(dir)
\* returns: directories are scanned in turn, files whose name ends in '.md'
\* give a record, every other file is passed over.
RECURSIVE GetAllMarkdownFiles(_, _, _)
GetAllMarkdownFiles(list, dir, baseDir) ==
    IF list = <<>> THEN <<>>
    ELSE LET file == Head(list)
             filePath == PathJoin(dir, file.name)
             found ==
                 IF file.isDirectory
                 THEN GetAllMarkdownFiles(file.list, filePath, baseDir)
                 ELSE IF EndsWith(file.name, mdExt)
                 THEN <<CatalogRecord(SlugOf(baseDir, filePath), file.data)>>
                 ELSE <<>>
         IN  found \o GetAllMarkdownFiles(Tail(list), dir, baseDir)

\* getAllDocs()
GetAllDocs(disk) == GetAllMarkdownFiles(disk.list, docsDirectory, docsDirectory)

\* The files the scan is exercised with, each with the directories it lies
\* in: documents with a full front matter, with a title only, with an index
\* only, with none and with the falsy values '' and 0; a file named '.md',
\* at the top and in a directory; a file whose name holds a backslash; a
\* directory whose name ends in '.md'; a name ending in '.md.md'; a file that
\* is no markdown file.
Located(dirs, name, data) == [dirs |-> dirs, file |-> File(name, data)]

images == <<"i", "m", "g">>

FileUniverse ==
    { Located(<<>>, intro \o mdExt, Data(TRUE, "Intro", TRUE, 1)),
      Located(<<guide>>, setup \o mdExt, NoData),
      Located(<<guide, advanced>>, tuning \o mdExt,
              Data(TRUE, "Tuning", FALSE, 0)),
      Located(<<>>, mdExt, Data(FALSE, "", TRUE, 2)),
      Located(<<guide>>, mdExt, Data(TRUE, "", TRUE, 0)),
      Located(<<>>, guide \o <<"\\">> \o setup \o mdExt,
              Data(TRUE, "Setup", TRUE, 0)),
      Located(<<api \o mdExt>>, api \o mdExt, Data(TRUE, "API", TRUE, 1)),
      Located(<<>>, api \o mdExt \o mdExt, NoData),
      Located(<<images>>, <<"l", "o", "g", "o", ".", "p", "n", "g">>, NoData) }

\* The position of the entry named name in a listing, 0 when absent.
ListIndex(list, name) ==
    IF \E i \in 1..Len(list) : list[i].name = name
    THEN CHOOSE i \in 1..Len(list) : list[i].name = name
    ELSE 0

\* The directory after a file was written into it, the directories on the
\* way being created where missing.
RECURSIVE WriteFile(_, _, _)
WriteFile(node, dirs, file) ==
    IF dirs = <<>> THEN Dir(node.name, Append(node.list, file))
    ELSE LET i == ListIndex(node.list, Head(dirs))
         IN  IF i = 0
             THEN Dir(node.name,
                      Append(node.list,
                             WriteFile(Dir(Head(dirs), <<>>), Tail(dirs), file)))
             ELSE Dir(node.name,
                      [node.list EXCEPT
                          ![i] = WriteFile(node.list[i], Tail(dirs), file)])

RECURSIVE WriteFiles(_, _)
WriteFiles(node, files) ==
    IF files = <<>> THEN node
    ELSE WriteFiles(WriteFile(node, Head(files).dirs, Head(files).file),
                    Tail(files))

\* A name the platform allows: no '/', and no '\' where it is the separator.
NameAllowed(name, s) == \A i \in 1..Len(name) : name[i] # "/" /\ name[i] # s

\* The disks: at most MaxFiles files of the universe, written in any order.
DisksOf(s) ==
    LET usable == {f \in FileUniverse : NameAllowed(f.file.name, s)}
    IN  { WriteFiles(Dir(<<>>, <<>>), files) :
            files \in UNION { {c \in [1..k -> usable] :
                                  \A i, j \in 1..k : i # j => c[i] # c[j]}
                              : k \in 0..MaxFiles } }

----------------------------------------------------------------------------
(* History of the toggles, kept for the properties of closing and reopening *)

\* A folder that a toggle closed: the open paths below it and the rows
\* below it that were rendered as expanded before the close, whether its own
\* row was rendered, whether other toggles ran since, and whether a toggle
\* has opened it again.
Collapse(tracking, path, below, shown, visible, between, reopened) ==
    [tracking |-> tracking, path |-> path, below |-> below, shown |-> shown,
     visible |-> visible, between |-> between, reopened |-> reopened]

NoCollapse == Collapse(FALSE, <<>>, {}, {}, FALSE, FALSE, FALSE)

\* The toggle that ran last with the state it was applied to and, when the
\* event before it was a toggle of the same path, the state that one was
\* applied to.
Previous(isToggle, path, state, twice, origin) ==
    [isToggle |-> isToggle, path |-> path, state |-> state, twice |-> twice,
     origin |-> origin]

NoPrevious == Previous(FALSE, <<>>, EmptyRecord, FALSE, EmptyRecord)

----------------------------------------------------------------------------
(* The state machine *)

\* The paths open in a state, and the part of them at one level.
Open(rec) == {k \in DOMAIN rec : rec[k]}

\* History record of the event that ran last: the path handed to
\* toggleFolder and whether it was open when called; for the effect, whether
\* it dropped a path that was open; for a toggle, whether the event before it
\* was a toggle that opened another path of the same level.
Event(op, path, wasOpen, dropped, chained) ==
    [op |-> op, path |-> path, wasOpen |-> wasOpen, dropped |-> dropped,
     chained |-> chained]

Init ==
    /\ groupedDocs \in Trees
    /\ pathname \in Routes(groupedDocs)
    /\ openFolders = EmptyRecord
    /\ effectPending = TRUE
    /\ lastEvent = Event("mount", <<>>, FALSE, FALSE, FALSE)
    /\ catalog = <<>>
    /\ built = NoResult
    /\ listRows = <<>>
    /\ pc = "sidebar"
    /\ docsDir = Dir(<<>>, <<>>)
    /\ sep = "/"
    /\ updateQueue = <<>>
    /\ sequential = EmptyRecord
    /\ collapsed = NoCollapse
    /\ previous = NoPrevious

\* The effect runs after the render that follows mount or a pathname change,
\* before any later event is handled.
UseEffect ==
    /\ effectPending
    /\ openFolders' = EffectResult(openFolders, pathname)
    /\ effectPending' = FALSE
    /\ lastEvent' = Event("effect", <<>>, FALSE,
                          Open(openFolders) \ Open(openFolders') # {}, FALSE)
    /\ UNCHANGED <<groupedDocs, pathname>>
    /\ UNCHANGED buildVars
    /\ UNCHANGED scanVars
    /\ UNCHANGED trackVars
    /\ UNCHANGED batchVars

\* Client-side navigation: usePathname() returns another pathname.
Navigate(route) ==
    /\ ~effectPending
    /\ route # pathname
    /\ pathname' = route
    /\ effectPending' = TRUE
    /\ lastEvent' = Event("navigate", <<>>, FALSE, FALSE, FALSE)
    /\ UNCHANGED <<groupedDocs, openFolders>>
    /\ UNCHANGED buildVars
    /\ UNCHANGED scanVars
    /\ UNCHANGED trackVars
    /\ UNCHANGED batchVars

\* Variant: a path that is no folder of the tree is rejected.
ToggleFolderKnownOnly(path) ==
    /\ ~effectPending
    /\ path \in FolderPaths(TreeOf(groupedDocs), <<>>)
    /\ openFolders' = ToggleUpdater(openFolders, path)
    /\ lastEvent' = Event("toggle", path, Truthy(openFolders, path), FALSE, FALSE)
    /\ UNCHANGED <<groupedDocs, pathname, effectPending>>
    /\ UNCHANGED buildVars
    /\ UNCHANGED scanVars
    /\ UNCHANGED trackVars
    /\ UNCHANGED batchVars

ToggleFolder(path) ==
    /\ ~effectPending
    /\ openFolders' = ToggleUpdater(openFolders, path)
    /\ lastEvent' = Event("toggle", path, Truthy(openFolders, path), FALSE,
                          /\ lastEvent.op = "toggle"
                          /\ ~lastEvent.wasOpen
                          /\ lastEvent.path # path
                          /\ Level(lastEvent.path) = Level(path))
    /\ UNCHANGED <<groupedDocs, pathname, effectPending>>
    /\ UNCHANGED buildVars
    /\ UNCHANGED scanVars
    /\ UNCHANGED trackVars
    /\ UNCHANGED batchVars

Next ==
    \/ UseEffect
    \/ \E route \in Routes(groupedDocs) : Navigate(route)
    \/ \E path \in TogglePaths(groupedDocs) : ToggleFolder(path)

Spec == Init /\ [][Next]_vars

----------------------------------------------------------------------------
(* The pipeline of a page load: the layout builds the tree from the catalog,
   the sidebar mounts on a route and renders the tree *)

\* The document routes of the built tree, and '/docs'.
BuiltRoutes ==
    {DocsPrefix \o slug : slug \in LeafSlugs(built.tree)}
        \cup {<<"/", "d", "o", "c", "s">>}

PipelineInit ==
    /\ catalog \in Catalogs
    /\ built = NoResult
    /\ listRows = <<>>
    /\ pc = "catalog"
    /\ groupedDocs = "built"
    /\ pathname = <<"/">>
    /\ openFolders = EmptyRecord
    /\ effectPending = FALSE
    /\ lastEvent = Event("mount", <<>>, FALSE, FALSE, FALSE)
    /\ docsDir = Dir(<<>>, <<>>)
    /\ sep = "/"
    /\ updateQueue = <<>>
    /\ sequential = EmptyRecord
    /\ collapsed = NoCollapse
    /\ previous = NoPrevious

\* The tree builder runs over the catalog.
Build ==
    /\ pc = "catalog"
    /\ built' = BuildTree(catalog)
    /\ pc' = "built"
    /\ UNCHANGED <<catalog, listRows>>
    /\ UNCHANGED sidebarVars
    /\ UNCHANGED scanVars
    /\ UNCHANGED trackVars
    /\ UNCHANGED batchVars

\* The sidebar mounts on a route and its effect opens the folders leading
\* to the route.
Mount(route) ==
    /\ pc = "built"
    /\ pathname' = route
    /\ openFolders' = EffectResult(openFolders, route)
    /\ pc' = "mounted"
    /\ UNCHANGED <<catalog, built, listRows>>
    /\ UNCHANGED <<groupedDocs, effectPending, lastEvent>>
    /\ UNCHANGED scanVars
    /\ UNCHANGED trackVars
    /\ UNCHANGED batchVars

\* Variant: the sorted entries are stored back into the tree.
RenderBuiltInPlace ==
    /\ pc = "mounted"
    /\ listRows' = RenderSidebar(built.tree, <<>>, pathname, openFolders)
    /\ built' = Result(Folder(SortedDocs(built.tree) \o SortedFolders(built.tree)),
                       built.errors)
    /\ pc' = "rendered"
    /\ UNCHANGED catalog
    /\ UNCHANGED sidebarVars
    /\ UNCHANGED scanVars
    /\ UNCHANGED trackVars
    /\ UNCHANGED batchVars

\* renderSidebar(groupedDocs) over the built tree.
RenderBuilt ==
    /\ pc = "mounted"
    /\ listRows' = RenderSidebar(built.tree, <<>>, pathname, openFolders)
    /\ pc' = "rendered"
    /\ UNCHANGED <<catalog, built>>
    /\ UNCHANGED sidebarVars
    /\ UNCHANGED scanVars
    /\ UNCHANGED trackVars
    /\ UNCHANGED batchVars

PipelineNext ==
    \/ Build
    \/ \E route \in BuiltRoutes : Mount(route)
    \/ RenderBuilt

SpecBuild == PipelineInit /\ [][PipelineNext]_vars

----------------------------------------------------------------------------
(* The scan that produces the catalog *)

\* The scan starts from a disk of a POSIX or a Windows platform.
ScanInit ==
    /\ sep \in {"/", "\\"}
    /\ docsDir \in DisksOf(sep)
    /\ updateQueue = <<>>
    /\ sequential = EmptyRecord
    /\ collapsed = NoCollapse
    /\ previous = NoPrevious
    /\ catalog = <<>>
    /\ built = NoResult
    /\ listRows = <<>>
    /\ pc = "disk"
    /\ groupedDocs = "built"
    /\ pathname = <<"/">>
    /\ openFolders = EmptyRecord
    /\ effectPending = FALSE
    /\ lastEvent = Event("mount", <<>>, FALSE, FALSE, FALSE)

\* The layout calls getAllDocs().
Scan ==
    /\ pc = "disk"
    /\ catalog' = GetAllDocs(docsDir)
    /\ pc' = "scanned"
    /\ UNCHANGED <<built, listRows>>
    /\ UNCHANGED sidebarVars
    /\ UNCHANGED scanVars
    /\ UNCHANGED trackVars
    /\ UNCHANGED batchVars

ScanNext == Scan

SpecScan == ScanInit /\ [][ScanNext]_vars

----------------------------------------------------------------------------
(* Batched updates: setOpenFolders calls queued until the next render *)

\* A queued update: the updater of toggleFolder(path), or the value the
\* effect hands to setOpenFolders.
Updater(path) == [fn |-> TRUE, path |-> path, value |-> EmptyRecord]

Value(value) == [fn |-> FALSE, path |-> <<>>, value |-> value]

\* Variant: every queued update is computed from the state of the last
\* render, so the last one alone decides.
ProcessQueueStale(base, queue) ==
    IF queue = <<>> THEN base
    ELSE LET last == queue[Len(queue)]
         IN  IF last.fn THEN ToggleUpdater(base, last.path) ELSE last.value

\* The render works the queue off in dispatch order: an updater gets the
\* state the update before it left (prev), a value replaces the state.
RECURSIVE ProcessQueue(_, _)
ProcessQueue(base, queue) ==
    IF queue = <<>> THEN base
    ELSE ProcessQueue(IF Head(queue).fn
                      THEN ToggleUpdater(base, Head(queue).path)
                      ELSE Head(queue).value,
                      Tail(queue))

\* The rows that can be clicked, and the empty string for a path that is no
\* folder; the routes of the documents of the tree, '/docs' and '/'.
BatchPaths == [tree \in Trees |-> FolderPaths(TreeOf(tree), <<>>) \cup {<<>>}]

BatchRoutes ==
    [tree \in Trees |->
        {DocsPrefix \o s : s \in LeafSlugs(TreeOf(tree))} \cup NonDocRoutes]

BatchInit ==
    /\ groupedDocs \in Trees
    /\ pathname \in BatchRoutes[groupedDocs]
    /\ openFolders = EmptyRecord
    /\ effectPending = TRUE
    /\ lastEvent = Event("mount", <<>>, FALSE, FALSE, FALSE)
    /\ updateQueue = <<>>
    /\ sequential = EmptyRecord
    /\ collapsed = NoCollapse
    /\ previous = NoPrevious
    /\ catalog = <<>>
    /\ built = NoResult
    /\ listRows = <<>>
    /\ pc = "batch"
    /\ docsDir = Dir(<<>>, <<>>)
    /\ sep = "/"

\* The effect runs after the render that committed the pathname and queues
\* its value, unless it returns early.
EffectQueued ==
    /\ effectPending
    /\ effectPending' = FALSE
    /\ updateQueue' = IF ~StartsWith(pathname, DocsPrefix) THEN updateQueue
                      ELSE Append(updateQueue, Value(PathsToOpen(pathname)))
    /\ sequential' = EffectResult(sequential, pathname)
    /\ lastEvent' = Event("effect", <<>>, FALSE, FALSE, FALSE)
    /\ UNCHANGED <<groupedDocs, pathname, openFolders>>
    /\ UNCHANGED buildVars
    /\ UNCHANGED scanVars
    /\ UNCHANGED trackVars

\* toggleFolder(path) is called before the view has rendered again.
DispatchToggle(path) ==
    /\ ~effectPending
    /\ Cardinality({i \in 1..Len(updateQueue) : updateQueue[i].fn}) < MaxBatch
    /\ updateQueue' = Append(updateQueue, Updater(path))
    /\ sequential' = ToggleUpdater(sequential, path)
    /\ lastEvent' = Event("toggle", path, Truthy(sequential, path), FALSE, FALSE)
    /\ UNCHANGED <<groupedDocs, pathname, openFolders, effectPending>>
    /\ UNCHANGED buildVars
    /\ UNCHANGED scanVars
    /\ UNCHANGED trackVars

\* The view renders again and works the queue off.
Rerender ==
    /\ ~effectPending
    /\ updateQueue # <<>>
    /\ openFolders' = ProcessQueue(openFolders, updateQueue)
    /\ updateQueue' = <<>>
    /\ lastEvent' = Event("render", <<>>, FALSE, FALSE,
                          Cardinality({i \in 1..Len(updateQueue) :
                                          updateQueue[i].fn}) >= 2)
    /\ UNCHANGED <<groupedDocs, pathname, effectPending, sequential>>
    /\ UNCHANGED buildVars
    /\ UNCHANGED scanVars
    /\ UNCHANGED trackVars

\* The view renders with another pathname, working the queue off.
NavigateBatched(route) ==
    /\ ~effectPending
    /\ route # pathname
    /\ pathname' = route
    /\ openFolders' = ProcessQueue(openFolders, updateQueue)
    /\ updateQueue' = <<>>
    /\ effectPending' = TRUE
    /\ lastEvent' = Event("navigate", <<>>, FALSE, FALSE, FALSE)
    /\ UNCHANGED <<groupedDocs, sequential>>
    /\ UNCHANGED buildVars
    /\ UNCHANGED scanVars
    /\ UNCHANGED trackVars

BatchNext ==
    \/ EffectQueued
    \/ \E path \in BatchPaths[groupedDocs] : DispatchToggle(path)
    \/ Rerender
    \/ \E route \in BatchRoutes[groupedDocs] : NavigateBatched(route)

SpecBatch == BatchInit /\ [][BatchNext]_vars

----------------------------------------------------------------------------
(* Vocabulary of the properties *)

\* Depth of a path: its number of '/' separators plus one.
Depth(p) == Cardinality({i \in 1..Len(p) : p[i] = "/"}) + 1

OpenPaths == Open(openFolders)

\* q is a proper ancestor of p.
IsAncestor(q, p) == StartsWith(p, q \o <<"/">>)

\* A document route and its slug; the slug's segments and the chain of its
\* proper non-empty prefixes s1, s1/s2, ..., s1/.../s(n-1).
IsDocRoute(pn) == StartsWith(pn, DocsPrefix) /\ Len(pn) > Len(DocsPrefix)

RouteSlug(pn) == SubSeq(pn, Len(DocsPrefix) + 1, Len(pn))

WellFormed(slug) == \A i \in 1..Len(Split(slug)) : Split(slug)[i] # <<>>

AncestorChain(slug) ==
    LET segs == Split(slug)
    IN  {Join(SubSeq(segs, 1, k)) : k \in 1..(Len(segs) - 1)}

AllOpen(paths) == [k \in paths |-> TRUE]

FolderPathsOf == [tree \in Trees |-> FolderPaths(TreeOf(tree), <<>>)]

KnownFolders == FolderPathsOf[groupedDocs]

LeafSlugsOf == [tree \in Trees |-> LeafSlugs(TreeOf(tree))]

KnownLeaves == LeafSlugsOf[groupedDocs]

\* The rows of a rendering, by kind.
FolderRowsOf(rows) == {rows[i] : i \in {j \in 1..Len(rows) : rows[j].type = "folder"}}

LeafRowsOf(rows) == {rows[i] : i \in {j \in 1..Len(rows) : rows[j].type = "leaf"}}

\* Every proper ancestor path of p is open.
AncestorsOpen(p) == \A a \in AncestorChain(p) : a \in OpenPaths

----------------------------------------------------------------------------
(* C1: sibling exclusivity.  In every reachable state at most one open path
   has any given depth. *)
C1_SiblingExclusivity ==
    \A p, q \in OpenPaths : Depth(p) = Depth(q) => p = q

\* A toggle has just opened a path while paths of two other depths are open.
C1_Witness ==
    /\ lastEvent.op = "toggle"
    /\ ~lastEvent.wasOpen
    /\ lastEvent.chained
    /\ Cardinality(OpenPaths) >= 3

(* C2: ancestor preservation.  A toggleFolder(p) step leaves the status of
   every path whose depth differs from depth(p) as it was. *)
C2_AncestorPreservation ==
    [][lastEvent'.op = "toggle" =>
        \A q \in DOMAIN openFolders \cup DOMAIN openFolders' :
            Depth(q) # Depth(lastEvent'.path) =>
                (Truthy(openFolders', q) <=> Truthy(openFolders, q))]_vars

\* A toggle has closed a path whose ancestor and whose descendant are open.
C2_Witness ==
    /\ lastEvent.op = "toggle"
    /\ lastEvent.wasOpen
    /\ \E q \in OpenPaths : IsAncestor(q, lastEvent.path)
    /\ \E q \in OpenPaths : IsAncestor(lastEvent.path, q)

(* C3: initialisation correctness.  Right after the effect has run for a
   document route with a well-formed slug, the open paths are exactly the
   proper non-empty prefixes of the slug, each stored as true; a slug of one
   segment gives the empty state. *)
C3_InitializationCorrect ==
    (lastEvent.op = "effect" /\ IsDocRoute(pathname)
        /\ WellFormed(RouteSlug(pathname)))
    => /\ openFolders = AllOpen(AncestorChain(RouteSlug(pathname)))
       /\ (Depth(RouteSlug(pathname)) = 1 => openFolders = EmptyRecord)
       /\ Cardinality(DOMAIN openFolders) = Depth(RouteSlug(pathname)) - 1

\* The effect has run for /docs/a/b/a: exactly a and a/b are open.
C3_Witness ==
    /\ lastEvent.op = "effect"
    /\ pathname = DocsPrefix \o Join(<<sa, sb, sa>>)
    /\ DOMAIN openFolders = {sa, Join(<<sa, sb>>)}

(* C4: a route change replaces the state.  The effect step that follows a
   navigation to a document route leaves exactly the ancestor chain of the new
   route, whatever was open before. *)
C4_RouteChangeReplaces ==
    [][(lastEvent.op = "navigate" /\ lastEvent'.op = "effect"
            /\ IsDocRoute(pathname'))
        => /\ openFolders' = AllOpen(AncestorChain(RouteSlug(pathname')))
           /\ \A q \in Open(openFolders) :
                q \notin AncestorChain(RouteSlug(pathname')) =>
                    ~Truthy(openFolders', q)]_vars

\* The effect has just dropped a path that was open and left a chain of two.
C4_Witness ==
    /\ lastEvent.op = "effect"
    /\ lastEvent.dropped
    /\ IsDocRoute(pathname)
    /\ Cardinality(OpenPaths) = 2

(* C5: toggle flips the target.  After toggleFolder(p), p is open if it was
   closed before and is no key of the state if it was open before. *)
C5_ToggleFlips ==
    lastEvent.op = "toggle" =>
        /\ ~lastEvent.wasOpen => Truthy(openFolders, lastEvent.path)
        /\ lastEvent.wasOpen => lastEvent.path \notin DOMAIN openFolders

\* A toggle has closed a path that was open, others staying open.
C5_Witness ==
    /\ lastEvent.op = "toggle"
    /\ lastEvent.wasOpen
    /\ lastEvent.path \notin DOMAIN openFolders
    /\ OpenPaths # {}

(* C6: successive toggles at one depth.  When toggleFolder(p) has opened p
   and toggleFolder(q) follows at once for another path q of the same depth,
   q is the only open path of that depth and p is closed. *)
C6_SuccessiveToggles ==
    [][(/\ lastEvent.op = "toggle"
        /\ ~lastEvent.wasOpen
        /\ lastEvent'.op = "toggle"
        /\ lastEvent'.path # lastEvent.path
        /\ Depth(lastEvent'.path) = Depth(lastEvent.path))
       => /\ Truthy(openFolders', lastEvent'.path)
          /\ ~Truthy(openFolders', lastEvent.path)
          /\ {k \in Open(openFolders') : Depth(k) = Depth(lastEvent'.path)}
                = {lastEvent'.path}]_vars

\* guide (or another root path) then reference were toggled: of the root
\* level only reference is open.
C6_Witness ==
    /\ groupedDocs = "TreeGuide"
    /\ lastEvent.op = "toggle"
    /\ lastEvent.chained
    /\ lastEvent.path = reference
    /\ {k \in OpenPaths : Depth(k) = 1} = {reference}

(* C7: toggle on an unknown path is a no-op.  A toggleFolder(p) step for a
   path p that is no folder of the tree leaves the open or closed status of
   every folder of the tree, and with it the rendered sidebar, unchanged. *)
C7_UnknownPathNoOp ==
    [][(lastEvent'.op = "toggle" /\ lastEvent'.path \notin KnownFolders)
        => /\ \A f \in KnownFolders :
                Truthy(openFolders', f) <=> Truthy(openFolders, f)
           /\ Rendered' = Rendered]_vars

(* C8: toggle is total.  In every reachable state in which events are
   handled, toggleFolder(p) can run for every path string p, known to the tree
   or not, and yields a record of booleans over the old keys and p. *)
C8_ToggleTotal ==
    [](~effectPending =>
        \A p \in TogglePaths(groupedDocs) :
            /\ ENABLED ToggleFolder(p)
            /\ LET next == ToggleUpdater(openFolders, p)
               IN  /\ DOMAIN next \subseteq DOMAIN openFolders \cup {p}
                   /\ \A k \in DOMAIN next : next[k] \in BOOLEAN)

\* A toggle has run for a malformed path that is no folder of the tree,
\* while a folder of the tree is open.
C8_Witness ==
    /\ lastEvent.op = "toggle"
    /\ lastEvent.path \notin KnownFolders
    /\ ~WellFormed(lastEvent.path)
    /\ OpenPaths \cap KnownFolders # {}

(* C9: render gating.  The children of a rendered folder are listed iff the
   folder's path is open, and a folder or leaf of the tree is rendered
   exactly when all its ancestor paths are open. *)
C9_RenderGating ==
    LET rows == Rendered
    IN  /\ \A r \in FolderRowsOf(rows) :
              /\ r.isOpen <=> r.path \in OpenPaths
              /\ (\E i \in 1..Len(rows) : rows[i].list = r.path)
                    <=> r.path \in OpenPaths
        /\ \A f \in KnownFolders :
              (\E r \in FolderRowsOf(rows) : r.path = f) <=> AncestorsOpen(f)
        /\ \A d \in KnownLeaves :
              (\E r \in LeafRowsOf(rows) : r.slug = d) <=> AncestorsOpen(d)

\* A folder is open but hidden behind a closed ancestor, while another
\* folder is rendered open with its children.
C9_Witness ==
    /\ \E f \in KnownFolders \cap OpenPaths : ~AncestorsOpen(f)
    /\ \E r \in FolderRowsOf(Rendered) : r.isOpen

(* C10: active marking.  A rendered leaf is marked active iff its slug is the
   pathname without the '/docs/' prefix; at most one leaf is active, and after
   initialisation for guide/adv/tune that leaf alone is active. *)
C10_ActiveMarking ==
    LET rows == Rendered
        active == {r \in LeafRowsOf(rows) : r.isActive}
    IN  /\ \A r \in LeafRowsOf(rows) :
              r.isActive <=> pathname = DocsPrefix \o r.slug
        /\ \A r \in FolderRowsOf(rows) : ~r.isActive
        /\ Cardinality(active) <= 1
        /\ (/\ groupedDocs = "TreeGuide"
            /\ lastEvent.op = "effect"
            /\ pathname = DocsPrefix \o Join(<<guide, advanced, tuning>>))
           => {r.slug : r \in active} = {Join(<<guide, advanced, tuning>>)}

\* The effect has run for /docs/guide/adv/tune and the leaf is marked.
C10_Witness ==
    /\ groupedDocs = "TreeGuide"
    /\ lastEvent.op = "effect"
    /\ \E r \in LeafRowsOf(Rendered) :
          r.isActive /\ r.slug = Join(<<guide, advanced, tuning>>)

----------------------------------------------------------------------------
(* Vocabulary of the ordering and builder properties *)

\* The node a folder path leads to; the root for the empty path.
RECURSIVE Descend(_, _)
Descend(node, segs) ==
    IF segs = <<>> THEN node
    ELSE Descend(node.entries[EntryIndex(node.entries, Head(segs))].value,
                 Tail(segs))

NodeAt(tree, path) == IF path = <<>> THEN tree ELSE Descend(tree, Split(path))

\* The lists a rendering shows: the root list and the list of every folder
\* row that is open; the positions of the rows of one list.
ListsOf(rows) == {<<>>} \cup {r.path : r \in {f \in FolderRowsOf(rows) : f.isOpen}}

RowsIn(rows, list) == {i \in 1..Len(rows) : rows[i].list = list}

\* The rows a rendering has for one entry of the level at a list.
RowsFor(rows, list, e) ==
    {i \in RowsIn(rows, list) :
        IF HasDoc(e.value)
        THEN rows[i].type = "leaf" /\ rows[i].slug = e.value.doc.slug
        ELSE rows[i].type = "folder" /\ rows[i].path = ChildPath(list, e.key)}

\* The last segment of a path: the key of the folder it names.
LastSegment(path) == Split(path)[Len(Split(path))]

(* C11: leaves before folders.  In the rendered list of every level, every
   leaf row precedes every folder row of that level, and every entry of the
   level has exactly one row, the list holding no other rows. *)
C11_LeavesBeforeFolders ==
    pc = "rendered" =>
        \A list \in ListsOf(listRows) :
            LET level == NodeAt(built.tree, list).entries
            IN  /\ \A i, j \in RowsIn(listRows, list) :
                      (listRows[i].type = "leaf" /\ listRows[j].type = "folder")
                        => i < j
                /\ \A k \in 1..Len(level) :
                      Cardinality(RowsFor(listRows, list, level[k])) = 1
                /\ Cardinality(RowsIn(listRows, list)) = Len(level)

\* A level whose folder was created before two of its leaves is rendered.
C11_Witness ==
    /\ pc = "rendered"
    /\ Len(built.tree.entries) = 3
    /\ ~HasDoc(built.tree.entries[1].value)
    /\ HasDoc(built.tree.entries[2].value)
    /\ HasDoc(built.tree.entries[3].value)
    /\ Cardinality(RowsIn(listRows, <<>>)) = 3

\* The position of a document in the catalog, by slug.
CatalogPos(slug) == CHOOSE k \in 1..Len(catalog) : catalog[k].slug = slug

(* C12: leaf order.  Within one rendered level the leaf rows are in ascending
   order of their documents' index, and leaves of equal index are in the
   order their documents have in the catalog, whatever their titles. *)
C12_LeafOrder ==
    pc = "rendered" =>
        \A list \in ListsOf(listRows) :
            \A i, j \in RowsIn(listRows, list) :
                (listRows[i].type = "leaf" /\ listRows[j].type = "leaf" /\ i < j)
                => LET di == catalog[CatalogPos(listRows[i].slug)]
                       dj == catalog[CatalogPos(listRows[j].slug)]
                   IN  /\ di.index <= dj.index
                       /\ di.index = dj.index
                            => CatalogPos(di.slug) < CatalogPos(dj.slug)

\* The keys of the folder rows of one list, in the order of the rows.
FolderKeysIn(rows, list) ==
    LET sel == SelectSeq(rows, LAMBDA r : r.type = "folder" /\ r.list = list)
    IN  [i \in 1..Len(sel) |-> LastSegment(sel[i].path)]

(* C13: folder order.  Within one rendered level the folder rows are in
   ascending order of their configured order, a name without configuration
   counting as 999; folders of equal order are in the order of the name
   comparison.  So every configured folder (orders 1 to 4) precedes every
   folder without configuration, and the latter are alphabetical. *)
C13_FolderOrder ==
    pc = "rendered" =>
        \A list \in ListsOf(listRows) :
            LET keys == FolderKeysIn(listRows, list)
            IN  \A i, j \in 1..Len(keys) :
                  i < j =>
                    /\ FolderOrder(keys[i]) <= FolderOrder(keys[j])
                    /\ FolderOrder(keys[i]) = FolderOrder(keys[j])
                          => LocaleCompare(keys[i], keys[j]) < 0
                    /\ keys[j] \in ConfiguredFolders
                          => /\ keys[i] \in ConfiguredFolders
                             /\ FolderOrder(keys[j]) \in 1..4
                    /\ keys[i] \notin ConfiguredFolders
                          => /\ FolderOrder(keys[i]) = 999
                             /\ keys[j] \notin ConfiguredFolders

\* The folders my-doc_s, guide and reference were created in this order and
\* are rendered as reference, guide, my-doc_s.
C13_Witness ==
    /\ pc = "rendered"
    /\ Len(catalog) = 3
    /\ catalog[1].slug = Join(<<myDocs, api>>)
    /\ catalog[2].slug = Join(<<guide, setup>>)
    /\ FolderKeysIn(listRows, <<>>) = <<reference, guide, myDocs>>

\* The configured folders reference and how-to were created in this order
\* and are rendered as how-to, reference, before the folder guide.
C13_WitnessConfigured ==
    /\ pc = "rendered"
    /\ Len(catalog) = 3
    /\ catalog[1].slug = Join(<<guide, setup>>)
    /\ catalog[2].slug = Join(<<reference, api>>)
    /\ FolderKeysIn(listRows, <<>>) = <<howTo, reference, guide>>

\* The characters of the model that are neither '-' nor '_'.
PlainChars(s) == {i \in 1..Len(s) : s[i] \notin {"-", "_"}}

(* C14: folder display name.  A rendered folder row shows the displayName
   configured for the folder's name; a folder without configuration shows its
   name with every '-' and every '_' replaced by a space and every other
   character kept. *)
C14_DisplayName ==
    pc = "rendered" =>
        \A r \in FolderRowsOf(listRows) :
            LET key == LastSegment(r.path)
            IN  /\ key = howTo =>
                      r.displayName = <<"H", "o", "w", "-", "t", "o", " ",
                                        "G", "u", "i", "d", "e", "s">>
                /\ key = reference =>
                      r.displayName = <<"T", "e", "c", "h", "n", "i", "c", "a", "l",
                                        " ", "R", "e", "f", "e", "r", "e", "n", "c", "e">>
                /\ key \notin ConfiguredFolders =>
                      /\ Len(r.displayName) = Len(key)
                      /\ \A i \in 1..Len(key) :
                            r.displayName[i] = IF i \in PlainChars(key)
                                               THEN key[i] ELSE " "
                /\ key = myDocs =>
                      r.displayName = <<"m", "y", " ", "d", "o", "c", " ", "s">>

\* The folders how-to and my-doc_s are rendered: the first with its
\* configured name that keeps the '-', the second with both separators
\* replaced.
C14_Witness ==
    /\ pc = "rendered"
    /\ \E r \in FolderRowsOf(listRows) :
          r.path = howTo /\ r.displayName[4] = "-"
    /\ \E r \in FolderRowsOf(listRows) :
          r.path = myDocs /\ r.displayName = <<"m", "y", " ", "d", "o", "c", " ", "s">>

\* The keys of the rows of one list, in the order of the rows.
RowKeysIn(rows, list) ==
    LET sel == SelectSeq(rows, LAMBDA r : r.list = list)
    IN  [i \in 1..Len(sel) |->
            LastSegment(IF sel[i].type = "leaf" THEN sel[i].slug ELSE sel[i].path)]

(* C15: ordering has no side effects.  The step that computes the rendered
   order leaves the tree, with the stored order of the children of every
   folder, and the expansion state as they were. *)
C15_OrderingPure ==
    [][pc' = "rendered" =>
        /\ built'.tree = built.tree
        /\ openFolders' = openFolders]_vars

\* A level was rendered in another order than the one it is stored in, a
\* folder being open, and the tree is still the one the builder returned.
C15_Witness ==
    /\ pc = "rendered"
    /\ OpenPaths # {}
    /\ \E list \in ListsOf(listRows) :
          LET level == NodeAt(built.tree, list).entries
          IN  RowKeysIn(listRows, list) # [i \in 1..Len(level) |-> level[i].key]
    /\ built = BuildTree(catalog)

\* A slug with an empty segment: empty, or with a leading, trailing or
\* doubled '/'.
HasEmptySegment(slug) ==
    \/ slug = <<>>
    \/ slug[1] = "/"
    \/ slug[Len(slug)] = "/"
    \/ \E i \in 1..(Len(slug) - 1) : slug[i] = "/" /\ slug[i + 1] = "/"

\* The catalog entries by kind: malformed; in conflict, a well-formed slug
\* that is a proper segment-prefix of another well-formed slug; valid, the
\* others.
CatalogDocs == {catalog[k] : k \in 1..Len(catalog)}

MalformedDocs == {d \in CatalogDocs : HasEmptySegment(d.slug)}

ConflictingDocs ==
    {d \in CatalogDocs \ MalformedDocs :
        \E e \in CatalogDocs \ MalformedDocs : IsAncestor(d.slug, e.slug)}

ValidDocs == (CatalogDocs \ MalformedDocs) \ ConflictingDocs

\* The path of the folder a slug lies in; the root for a slug of one segment.
ParentPath(slug) == Join(SliceButLast(Split(slug)))

\* The children named key of the node at a folder path.
ChildrenNamed(tree, path, key) ==
    LET level == NodeAt(tree, path).entries
    IN  {i \in 1..Len(level) : level[i].key = key}

\* The tree of the catalog [intro, guide/setup, guide/adv/tune].
ExampleCatalog ==
    << Doc(intro, "Intro", 0),
       Doc(Join(<<guide, setup>>), "Setup", 0),
       Doc(Join(<<guide, advanced, tuning>>), "Tuning", 1) >>

ExampleTree ==
    Folder(<<
        Entry(intro, Leaf(ExampleCatalog[1])),
        Entry(guide, Folder(<<
            Entry(setup, Leaf(ExampleCatalog[2])),
            Entry(advanced, Folder(<<
                Entry(tuning, Leaf(ExampleCatalog[3])) >>)) >>)) >>)

(* C16: tree construction.  For every valid document of the catalog, with
   segments s1..sn, the built tree has a folder at each of s1, s1/s2, ...,
   s1/.../s(n-1) and, in the last of them, exactly one child named sn, which
   is the leaf of that document.  The catalog [intro, guide/setup,
   guide/adv/tune] gives the root leaf intro and the root folder guide with
   the leaf setup and the folder adv holding the leaf tune. *)
C16_TreeConstruction ==
    pc = "built" =>
        /\ \A d \in ValidDocs :
              /\ AncestorChain(d.slug) \subseteq FolderPaths(built.tree, <<>>)
              /\ LET named == ChildrenNamed(built.tree, ParentPath(d.slug),
                                            LastSegment(d.slug))
                     level == NodeAt(built.tree, ParentPath(d.slug)).entries
                 IN  /\ Cardinality(named) = 1
                     /\ \A i \in named : level[i].value = Leaf(d)
        /\ catalog = ExampleCatalog => built.tree = ExampleTree

\* The builder has placed guide/adv/tune first, creating guide and
\* guide/adv, and then intro and guide/setup.
C16_Witness ==
    /\ pc = "built"
    /\ catalog = <<ExampleCatalog[3], ExampleCatalog[1], ExampleCatalog[2]>>
    /\ FolderPaths(built.tree, <<>>) = {guide, Join(<<guide, advanced>>)}
    /\ ValidDocs = CatalogDocs

\* The builder has run over the example catalog in its own order.
C16_WitnessExample ==
    /\ pc = "built"
    /\ catalog = ExampleCatalog
    /\ built.errors = <<>>

\* A tree with the ordering of renderSidebar applied at every level: the
\* sorted leaves, then the sorted folders, each ordered in turn.
RECURSIVE OrderedTree(_)
OrderedTree(tree) ==
    LET folders == SortedFolders(tree)
    IN  Folder(SortedDocs(tree)
               \o [i \in 1..Len(folders) |->
                     Entry(folders[i].key, OrderedTree(folders[i].value))])

\* The catalogs that are permutations of the catalog.
Reorderings ==
    {[i \in 1..Len(catalog) |-> catalog[f[i]]] : f \in Permutations(1..Len(catalog))}

\* The comparator that orders sibling leaves by index and leaves of equal
\* index by name.
TieCompare(x, y) ==
    IF x.value.doc.index # y.value.doc.index
    THEN x.value.doc.index - y.value.doc.index
    ELSE LocaleCompare(x.key, y.key)

\* A tree with the sibling leaves of equal index arranged by name at every
\* level, everything else in the order it has.
RECURSIVE TiesByName(_)
TiesByName(tree) ==
    LET docs == SelectSeq(tree.entries, IsDocEntry)
        folders == SelectSeq(tree.entries, IsFolderEntry)
    IN  Folder(SortBy(docs, [j, i \in 1..Len(docs) |-> TieCompare(docs[j], docs[i])])
               \o [i \in 1..Len(folders) |->
                     Entry(folders[i].key, TiesByName(folders[i].value))])

\* The tree built from a catalog in rendering order, and the same with the
\* ties arranged by name.
OrderedBuild(c) == OrderedTree(BuildTree(c).tree)

UntiedBuild(c) == TiesByName(OrderedBuild(c))

\* The catalog is held in the order of its slugs.  Every catalog is a
\* permutation of exactly one catalog in this order.
InSlugOrder ==
    \A i, j \in 1..Len(catalog) :
        i < j => LocaleCompare(catalog[i].slug, catalog[j].slug) < 0

(* C17 as stated: determinism under reordering.  For every catalog, taken in
   the order of its slugs, and every permutation of it, the tree built from
   the permutation and the tree built from the catalog are identical once the
   ordering is applied at every level. *)
C17_ReorderingIdentical ==
    (pc = "built" /\ InSlugOrder) =>
        LET ordered == OrderedTree(built.tree)
        IN  \A c \in Reorderings : OrderedBuild(c) = ordered

(* C17 amended: for every catalog, taken in the order of its slugs, and every
   permutation of it, the tree built from the permutation and the tree built
   from the catalog are identical once the ordering is applied at every
   level, except for the order among sibling leaves of equal index: they are
   identical once such leaves are arranged by name.  Two permutations of one
   catalog are permutations of the same slug-ordered catalog, so they agree
   with each other in the same way. *)
C17_ReorderingUpToTies ==
    (pc = "built" /\ InSlugOrder) =>
        LET untied == TiesByName(OrderedTree(built.tree))
        IN  \A c \in Reorderings : UntiedBuild(c) = untied

\* A catalog of three well-formed documents in slug order: one of its
\* permutations is stored as another tree and ordered as the same tree,
\* another one, with two leaves of equal index exchanged, is ordered as
\* another tree.
C17_Witness ==
    /\ pc = "built"
    /\ InSlugOrder
    /\ Len(catalog) = 3
    /\ MalformedDocs = {}
    /\ \E c \in Reorderings :
          /\ BuildTree(c).tree # built.tree
          /\ OrderedBuild(c) = OrderedTree(built.tree)
    /\ \E c \in Reorderings :
          /\ OrderedBuild(c) # OrderedTree(built.tree)
          /\ UntiedBuild(c) = TiesByName(OrderedTree(built.tree))

\* The entries of the error side list.
Reported == {built.errors[i] : i \in 1..Len(built.errors)}

(* C18: round trip.  The slugs of the leaves found by walking the built tree
   are exactly the slugs of the catalog that are neither malformed nor
   dropped by a leaf/folder conflict, and each leaf wraps the document of its
   slug: no valid document is lost and no leaf is invented. *)
C18_RoundTrip ==
    pc = "built" =>
        /\ LeafSlugs(built.tree) = {d.slug : d \in ValidDocs}
        /\ LeafDocs(built.tree) = ValidDocs

\* A catalog with a malformed slug, a document in conflict and a valid
\* document has been built: only the valid document is a leaf.
C18_Witness ==
    /\ pc = "built"
    /\ MalformedDocs # {}
    /\ ConflictingDocs # {}
    /\ Cardinality(LeafSlugs(built.tree)) = 1
    /\ Len(catalog) = 3

(* C19: MalformedSlug handling.  A catalog entry whose slug is empty or has an
   empty segment (a leading, trailing or doubled '/') is no leaf of the built
   tree and adds no folder to it, and is reported in the error side list as
   MalformedSlug with its slug; every valid document of the catalog is placed
   all the same, and nothing else is reported as malformed. *)
C19_MalformedSlug ==
    pc = "built" =>
        /\ \A d \in MalformedDocs :
              /\ d \notin LeafDocs(built.tree)
              /\ BuildError("MalformedSlug", d.slug) \in Reported
        /\ FolderPaths(built.tree, <<>>)
              = UNION {AncestorChain(d.slug) : d \in CatalogDocs \ MalformedDocs}
        /\ ValidDocs \subseteq LeafDocs(built.tree)
        /\ \A e \in Reported :
              e.kind = "MalformedSlug" => e.path \in {d.slug : d \in MalformedDocs}

\* Two of the slugs '/intro', 'setup/' and 'guide//api' were rejected and
\* reported, no folder was created, and the third document of the catalog is
\* in the tree.
C19_Witness ==
    /\ pc = "built"
    /\ Len(catalog) = 3
    /\ Cardinality(MalformedDocs) = 2
    /\ \A d \in MalformedDocs : d.slug # <<>>
    /\ Len(built.errors) = 2
    /\ FolderPaths(built.tree, <<>>) = {}
    /\ Cardinality(LeafDocs(built.tree)) = 1

\* The empty slug was rejected and reported between two documents that were
\* placed.
C19_WitnessEmpty ==
    /\ pc = "built"
    /\ Len(catalog) = 3
    /\ catalog[2].slug = <<>>
    /\ built.errors = <<BuildError("MalformedSlug", <<>>)>>
    /\ Cardinality(LeafDocs(built.tree)) = 2

(* C20: NodeKindConflict policy.  When the catalog has a well-formed slug x
   and a well-formed slug of which x is a proper segment-prefix, whichever
   comes first, the built tree has a folder at x and no leaf for the document
   x, every valid document below x is a leaf of the tree, and a conflict
   naming x is reported; nothing else is reported as a conflict. *)
C20_NodeKindConflict ==
    pc = "built" =>
        /\ \A d \in ConflictingDocs :
              /\ d.slug \in FolderPaths(built.tree, <<>>)
              /\ d \notin LeafDocs(built.tree)
              /\ d.slug \notin LeafSlugs(built.tree)
              /\ \A e \in ValidDocs :
                    IsAncestor(d.slug, e.slug) => e \in LeafDocs(built.tree)
              /\ \E e \in ValidDocs : IsAncestor(d.slug, e.slug)
              /\ BuildError("NodeKindConflict", d.slug) \in Reported
        /\ \A e \in Reported :
              e.kind = "NodeKindConflict"
                => e.path \in {d.slug : d \in ConflictingDocs}

\* The document guide came first and guide/setup and guide/adv/tune after
\* it: guide is a folder, both documents are leaves, the conflict is reported.
C20_Witness ==
    /\ pc = "built"
    /\ Len(catalog) = 3
    /\ catalog[1].slug = guide
    /\ Cardinality(ConflictingDocs) = 1
    /\ Cardinality(LeafDocs(built.tree)) = 2
    /\ built.errors = <<BuildError("NodeKindConflict", guide)>>

\* The document guide came last, after guide/setup: the leaf was dropped and
\* the conflict is reported.
C20_WitnessFolderFirst ==
    /\ pc = "built"
    /\ Len(catalog) = 2
    /\ catalog[2].slug = guide
    /\ catalog[1].slug = Join(<<guide, setup>>)
    /\ LeafSlugs(built.tree) = {Join(<<guide, setup>>)}
    /\ built.errors = <<BuildError("NodeKindConflict", guide)>>

\* Every name of a level leads to one node, and every node is either a leaf,
\* which wraps a document and has no children, or a folder, which wraps none.
RECURSIVE OneNodePerName(_)
OneNodePerName(node) ==
    /\ \A i, j \in 1..Len(node.entries) :
          node.entries[i].key = node.entries[j].key => i = j
    /\ \A i \in 1..Len(node.entries) :
          LET v == node.entries[i].value
          IN  IF HasDoc(v) THEN v = Leaf(v.doc)
              ELSE v = Folder(v.entries) /\ OneNodePerName(v)

(* C21: one node per name.  In the tree built from any catalog every name of
   every level leads to exactly one node, which is a leaf or a folder and not
   both: no path is the slug of a leaf and the path of a folder.  A
   well-formed document of the catalog is the leaf at its slug, or a folder
   stands at its slug and the conflict is reported: no node is replaced by a
   node of the other kind without a report. *)
C21_OneNodePerName ==
    pc = "built" =>
        /\ OneNodePerName(built.tree)
        /\ LeafSlugs(built.tree) \cap FolderPaths(built.tree, <<>>) = {}
        /\ \A d \in CatalogDocs \ MalformedDocs :
              /\ AncestorChain(d.slug) \subseteq FolderPaths(built.tree, <<>>)
              /\ \/ d \in LeafDocs(built.tree)
                 \/ /\ d.slug \in FolderPaths(built.tree, <<>>)
                    /\ BuildError("NodeKindConflict", d.slug) \in Reported

\* The document guide and two documents below guide were built, guide coming
\* second: the root has the one name guide, a folder with two names.
C21_Witness ==
    /\ pc = "built"
    /\ Len(catalog) = 3
    /\ catalog[2].slug = guide
    /\ IsAncestor(guide, catalog[1].slug)
    /\ IsAncestor(guide, catalog[3].slug)
    /\ Len(built.tree.entries) = 1
    /\ Len(NodeAt(built.tree, guide).entries) = 2
    /\ BuildError("NodeKindConflict", guide) \in Reported

----------------------------------------------------------------------------
(* Vocabulary of the scan properties *)

\* The markdown files of a listing, the files of a directory standing where
\* the directory stands: each with the names of its directories and its own.
RECURSIVE MarkdownFiles(_, _)
MarkdownFiles(list, dirs) ==
    IF list = <<>> THEN <<>>
    ELSE LET e == Head(list)
             here == IF e.isDirectory
                     THEN MarkdownFiles(e.list, Append(dirs, e.name))
                     ELSE IF EndsWith(e.name, mdExt)
                     THEN <<[dirs |-> dirs, file |-> e]>>
                     ELSE <<>>
         IN  here \o MarkdownFiles(Tail(list), dirs)

OnDisk == MarkdownFiles(docsDir.list, <<>>)

(* C22: MissingMetadata defaults.  After the scan the catalog has one record
   for every markdown file of the disk, none being left out or reported, and
   every record has a slug, a title and an index; the record of a file whose
   front matter has no title has the title 'Untitled', and the record of a
   file whose front matter has no index has the index 0. *)
C22_MissingMetadataDefaults ==
    pc = "scanned" =>
        /\ Len(catalog) = Len(OnDisk)
        /\ \A k \in 1..Len(catalog) :
              /\ DOMAIN catalog[k] = {"slug", "title", "index"}
              /\ ~OnDisk[k].file.data.hasTitle => catalog[k].title = "Untitled"
              /\ ~OnDisk[k].file.data.hasIndex => catalog[k].index = 0

\* A file without front matter, a file with a title only and a file with an
\* index only were scanned.
C22_Witness ==
    /\ pc = "scanned"
    /\ Len(catalog) = 3
    /\ \E k \in 1..3 : OnDisk[k].file.data = NoData
    /\ \E k \in 1..3 : /\ OnDisk[k].file.data.hasTitle
                       /\ ~OnDisk[k].file.data.hasIndex
                       /\ catalog[k].title = "Tuning"
    /\ \E k \in 1..3 : /\ ~OnDisk[k].file.data.hasTitle
                       /\ OnDisk[k].file.data.hasIndex
                       /\ catalog[k].index = 2

\* The slug a markdown file should get: the names of its directories and its
\* own name without the extension, joined by '/'.
PathSlug(f) ==
    Join(Append(f.dirs, SubSeq(f.file.name, 1, Len(f.file.name) - Len(mdExt))))

(* C24: catalog slugs are well formed.  After the scan every slug of the
   catalog is non-empty and has no empty segment (no leading, trailing or
   doubled '/'), holds no backslash, is the '/'-joined path of its file
   without the extension '.md', and no two records of the catalog have the
   same slug. *)
C24_CatalogSlugsWellFormed ==
    pc = "scanned" =>
        /\ \A k \in 1..Len(catalog) :
              /\ ~HasEmptySegment(catalog[k].slug)
              /\ \A i \in 1..Len(catalog[k].slug) : catalog[k].slug[i] # "\\"
              /\ catalog[k].slug = ReplaceBackslashes(PathSlug(OnDisk[k]))
        /\ \A j, k \in 1..Len(catalog) :
              catalog[j].slug = catalog[k].slug => j = k

(* C23: sequential transitions.  Whenever no update waits for a render, the
   expansion state is the state that the toggles and route changes dispatched
   so far give when each is applied, in dispatch order, to the state the one
   before it left: no update of a batch is lost or merged with another. *)
C23_SequentialTransitions ==
    updateQueue = <<>> => openFolders = sequential

\* One render has worked off two or more toggles, which left two paths open.
C23_Witness ==
    /\ lastEvent.op = "render"
    /\ lastEvent.chained
    /\ updateQueue = <<>>
    /\ Cardinality(OpenPaths) >= 2

\* The paths of the folder rows that are rendered as expanded.
Expanded == {r.path : r \in {q \in FolderRowsOf(Rendered) : q.isOpen}}

(* C25: visible expansion is a single chain.  In every reachable state the
   folders rendered as expanded are the folders of the tree that are open
   and have every ancestor open; there is at most one of them at each depth,
   and each one below the top level is a child of the one that is one level
   higher. *)
C25_VisibleChain ==
    /\ Expanded = {p \in KnownFolders : p \in OpenPaths /\ AncestorsOpen(p)}
    /\ \A p, q \in Expanded : Depth(p) = Depth(q) => p = q
    /\ \A p \in Expanded :
          Depth(p) > 1 =>
              \E q \in Expanded : /\ Depth(q) = Depth(p) - 1
                                  /\ p = ChildPath(q, LastSegment(p))

\* After a toggle two folders are rendered as expanded, one below the other,
\* while a third open path is not rendered as expanded.
C25_Witness ==
    /\ lastEvent.op = "toggle"
    /\ Cardinality(Expanded) = 2
    /\ OpenPaths \ Expanded # {}

\* A folder of the tree is open and hidden, its parent being closed.
C25_WitnessHidden ==
    /\ Cardinality(Expanded) = 1
    /\ \E p \in OpenPaths \cap KnownFolders : p \notin Expanded

\* The route names a leaf of the tree; the row of that leaf is rendered and
\* marked active.
IsLeafRoute(tree, pn) == IsDocRoute(pn) /\ RouteSlug(pn) \in LeafSlugsOf[tree]

LeafRendered(tree, pn, open) ==
    \E r \in LeafRowsOf(RenderSidebar(TreeOf(tree), <<>>, pn, open)) :
        r.isActive /\ r.slug = RouteSlug(pn)

ActiveIsLeaf == IsLeafRoute(groupedDocs, pathname)

ActiveLeafRendered == LeafRendered(groupedDocs, pathname, openFolders)

(* C26: the active leaf is reachable after initialisation.  When the effect
   has run for a route whose slug names a leaf of the tree, every ancestor
   folder of the leaf is open and the row of the leaf is rendered; and a
   toggleFolder call whose path has at least as many segments as the slug
   leaves a rendered active leaf rendered, so the leaf stays rendered until
   a toggle targets a path of smaller depth. *)
C26_ActiveLeafReachable ==
    [][/\ (lastEvent'.op = "effect" /\ IsLeafRoute(groupedDocs, pathname))
            => /\ AncestorChain(RouteSlug(pathname)) \subseteq Open(openFolders')
               /\ LeafRendered(groupedDocs, pathname, openFolders')
       /\ (/\ lastEvent'.op = "toggle"
           /\ ActiveIsLeaf
           /\ Depth(lastEvent'.path) >= Depth(RouteSlug(pathname))
           /\ ActiveLeafRendered)
            => LeafRendered(groupedDocs, pathname, openFolders')]_vars

\* A toggle has opened a path as deep as the active slug, which has two or
\* more segments, and the active leaf is still rendered.
C26_Witness ==
    /\ lastEvent.op = "toggle"
    /\ ~lastEvent.wasOpen
    /\ ActiveIsLeaf
    /\ Depth(RouteSlug(pathname)) >= 2
    /\ Depth(lastEvent.path) >= Depth(RouteSlug(pathname))
    /\ ActiveLeafRendered

\* The effect has run for a leaf three folders deep: the leaf is rendered.
C26_WitnessInit ==
    /\ lastEvent.op = "effect"
    /\ ActiveIsLeaf
    /\ Depth(RouteSlug(pathname)) = 4
    /\ ActiveLeafRendered

----------------------------------------------------------------------------
(* The sidebar with the history of its toggles *)

\* What is recorded when a toggle closes the open folder path.
Snapshot(path) ==
    Collapse(TRUE, path,
             {q \in OpenPaths : IsAncestor(path, q)},
             {q \in Expanded : IsAncestor(path, q)},
             path \in Expanded, FALSE, FALSE)

\* The record after toggleFolder(path): a close starts a record, or leaves
\* the record of a folder closed earlier when the path is not deeper than
\* that folder; an opening of the recorded folder is noted; a toggle deeper
\* than the recorded folder ends the record.
Recorded(path) ==
    LET running == collapsed.tracking /\ ~collapsed.reopened
        kept == IF running /\ Level(path) <= Level(collapsed.path)
                THEN {[collapsed EXCEPT !.between = TRUE]} ELSE {}
    IN  IF Truthy(openFolders, path) THEN {Snapshot(path)} \cup kept
        ELSE IF running /\ path = collapsed.path
        THEN {[collapsed EXCEPT !.reopened = TRUE]}
        ELSE IF kept # {} THEN kept
        ELSE {NoCollapse}

TrackedInit ==
    /\ groupedDocs \in Trees
    /\ pathname \in BatchRoutes[groupedDocs]
    /\ openFolders = EmptyRecord
    /\ effectPending = TRUE
    /\ lastEvent = Event("mount", <<>>, FALSE, FALSE, FALSE)
    /\ updateQueue = <<>>
    /\ sequential = EmptyRecord
    /\ collapsed = NoCollapse
    /\ previous = NoPrevious
    /\ catalog = <<>>
    /\ built = NoResult
    /\ listRows = <<>>
    /\ pc = "tracked"
    /\ docsDir = Dir(<<>>, <<>>)
    /\ sep = "/"

TrackedEffect ==
    /\ effectPending
    /\ openFolders' = EffectResult(openFolders, pathname)
    /\ effectPending' = FALSE
    /\ lastEvent' = Event("effect", <<>>, FALSE,
                          Open(openFolders) \ Open(openFolders') # {}, FALSE)
    /\ collapsed' = NoCollapse
    /\ previous' = NoPrevious
    /\ UNCHANGED <<groupedDocs, pathname>>
    /\ UNCHANGED buildVars
    /\ UNCHANGED scanVars
    /\ UNCHANGED batchVars

TrackedNavigate(route) ==
    /\ ~effectPending
    /\ route # pathname
    /\ pathname' = route
    /\ effectPending' = TRUE
    /\ lastEvent' = Event("navigate", <<>>, FALSE, FALSE, FALSE)
    /\ collapsed' = NoCollapse
    /\ previous' = NoPrevious
    /\ UNCHANGED <<groupedDocs, openFolders>>
    /\ UNCHANGED buildVars
    /\ UNCHANGED scanVars
    /\ UNCHANGED batchVars

TrackedToggle(path) ==
    /\ ~effectPending
    /\ openFolders' = ToggleUpdater(openFolders, path)
    /\ lastEvent' = Event("toggle", path, Truthy(openFolders, path), FALSE,
                          /\ lastEvent.op = "toggle"
                          /\ ~lastEvent.wasOpen
                          /\ lastEvent.path # path
                          /\ Level(lastEvent.path) = Level(path))
    /\ collapsed' \in Recorded(path)
    /\ previous' = LET twice == previous.isToggle /\ previous.path = path
                   IN  Previous(TRUE, path, openFolders, twice,
                                IF twice THEN previous.state ELSE EmptyRecord)
    /\ UNCHANGED <<groupedDocs, pathname, effectPending>>
    /\ UNCHANGED buildVars
    /\ UNCHANGED scanVars
    /\ UNCHANGED batchVars

TrackedNext ==
    \/ TrackedEffect
    \/ \E route \in BatchRoutes[groupedDocs] : TrackedNavigate(route)
    \/ \E path \in BatchPaths[groupedDocs] : TrackedToggle(path)

SpecTracked == TrackedInit /\ [][TrackedNext]_vars

(* C27: collapse keeps descendant state.  When an open folder was closed by
   toggleFolder and a later toggleFolder of the same path has opened it
   again, with no toggle of a deeper path and no route change in between,
   the open paths below the folder are the ones that were open before the
   close; and when the folder's row was rendered before the close and is
   rendered now, the rows below it rendered as expanded are the same. *)
C27_CollapseKeepsDescendants ==
    (collapsed.tracking /\ collapsed.reopened)
    => /\ {q \in OpenPaths : IsAncestor(collapsed.path, q)} = collapsed.below
       /\ (collapsed.visible /\ collapsed.path \in Expanded)
            => {q \in Expanded : IsAncestor(collapsed.path, q)} = collapsed.shown

\* A folder that showed an expanded folder below it was closed, another
\* toggle ran, and the folder was opened again and is rendered.
C27_Witness ==
    /\ collapsed.tracking
    /\ collapsed.reopened
    /\ collapsed.between
    /\ collapsed.visible
    /\ collapsed.shown # {}
    /\ collapsed.path \in Expanded

\* The state without the paths of one level.
WithoutLevel(state, level) ==
    [key \in {k \in DOMAIN state : Level(k) # level} |-> state[key]]

(* C28: double toggle.  After two toggleFolder calls of one path p in a row,
   the state is the state S before the first call when p was open in S, and
   is S without the paths of the depth of p when p was closed in S. *)
C28_DoubleToggle ==
    previous.twice =>
        openFolders = IF Truthy(previous.origin, previous.path)
                      THEN previous.origin
                      ELSE WithoutLevel(previous.origin, Level(previous.path))

\* A path that was closed was toggled twice while another path of its depth
\* was open: the state is not the one before the two calls.
C28_Witness ==
    /\ previous.twice
    /\ ~Truthy(previous.origin, previous.path)
    /\ openFolders # previous.origin
    /\ OpenPaths # {}

\* A path that was open, with open paths above and below it, was toggled
\* twice: the state is the one before the two calls.
C28_WitnessOpen ==
    /\ previous.twice
    /\ Truthy(previous.origin, previous.path)
    /\ Cardinality(OpenPaths) = 3

(* C29: a non-document route keeps the state.  The effect step that runs for
   a pathname not starting with '/docs/', '/docs' among them, leaves
   openFolders exactly as it was: the folders opened earlier stay open. *)
C29_NonDocRouteKeepsState ==
    [][(lastEvent'.op = "effect" /\ ~StartsWith(pathname, DocsPrefix))
        => /\ openFolders' = openFolders
           /\ Open(openFolders) \subseteq Open(openFolders')]_vars

\* The effect has run for '/docs' after a navigation and two folders opened
\* earlier are still open.
C29_Witness ==
    /\ lastEvent.op = "effect"
    /\ pathname = <<"/", "d", "o", "c", "s">>
    /\ Cardinality(OpenPaths \cap KnownFolders) = 2

====
